---- MODULE Spec2Model ----
(***************************************************************************)
(* Model of MemTools' preprocessor_analyzer.py: the dependency resolver    *)
(* (ModuleDependencyAnalyzer), the conditional-compilation interpreter     *)
(* (PreprocessorParser) and the memory estimator / orchestrator            *)
(* (EnhancedModuleAnalyzer).                                               *)
(*                                                                         *)
(* Text is modelled as sequences of characters: a letter is a one-letter   *)
(* string, digits included ("0".."9").  Python dicts are modelled          *)
(* as sequences of [k, v] entries in insertion order.  A config / Python   *)
(* value is a record [t |-> "bool" | "int", n |-> Nat].                    *)
(***************************************************************************)
EXTENDS Integers, Sequences, FiniteSets, TLC

VARIABLES
    phase,              \* position of the driver in the specification at hand
    modules,            \* ModuleDependencyAnalyzer.modules   (names; one file per name)
    programs,           \* ModuleDependencyAnalyzer.programs  (names; one file per name)
    dependencies,       \* ModuleDependencyAnalyzer.dependencies, each set in its iteration order
    target_name,        \* unit defined by the file handed to analyze_file
    unit_order,         \* value returned by analyze_file
    result_keys,        \* keys of the dict returned by analyze_module
    defines,            \* PreprocessorState.defines (the SymbolTable)
    active_blocks,      \* PreprocessorState.active_blocks
    lines,              \* parse_file: the lines of the file read so far
    i,                  \* parse_file: the loop index (1-based)
    processed_lines,    \* parse_file: indices of the lines appended to the output
    log,                \* parse_file: the "active blocks before/after" debug records
    config,             \* the configuration document handed to the constructor
    files,              \* the source directory: unit name -> lines of its file
    processed_contents, \* EnhancedModuleAnalyzer.processed_contents
    results,            \* analyze_module: the dict being built
    k,                  \* analyze_module: position in unit_order (1-based)
    returned            \* the dicts returned by the analyze_module calls so far

orderVars == <<modules, programs, dependencies, target_name, unit_order, result_keys>>
ppVars == <<defines, active_blocks, lines, i, processed_lines, log>>
runVars == <<config, files, processed_contents, results, k, returned>>
vars == <<phase, orderVars, ppVars, runVars>>

----------------------------------------------------------------------------
(* Generic helpers *)

Range(s) == {s[j] : j \in 1..Len(s)}

NoDup(s) == \A j1, j2 \in 1..Len(s) : s[j1] = s[j2] => j1 = j2

SeqsUpTo(S, n) == UNION {[1..m -> S] : m \in 0..n}

Count(s, x) == Cardinality({j \in 1..Len(s) : s[j] = x})

----------------------------------------------------------------------------
(* Bounds *)

MaxRefs == 2            \* references ("use" names) per unit in the resolver model

----------------------------------------------------------------------------
(* ModuleDependencyAnalyzer *)

UnknownNames == {"x"}   \* names that are used but defined by no scanned file

\* self.dependencies.get(name, set()), the set read in its iteration order
DepsOf(deps, name) == IF name \in DOMAIN deps THEN deps[name] ELSE <<>>

AppendAlways(needed, dep) == Append(needed, dep)

\* if dep not in needed: needed.append(dep)
AppendIfAbsent(needed, dep) ==
    IF dep \in Range(needed) THEN needed ELSE Append(needed, dep)

RECURSIVE visit(_, _, _), visitDeps(_, _, _)
\* def visit(name); st = [visited, needed], the closure's two locals
visit(name, st, deps) ==
    IF name \in st.visited
    THEN st
    ELSE visitDeps(DepsOf(deps, name),
                   [st EXCEPT !.visited = @ \cup {name}], deps)

\* for dep in self.dependencies.get(name, set()): visit(dep); append if absent
visitDeps(ds, st, deps) ==
    IF ds = <<>>
    THEN st
    ELSE LET s1 == visit(Head(ds), st, deps)
             s2 == [s1 EXCEPT !.needed = AppendIfAbsent(@, Head(ds))]
         IN  visitDeps(Tail(ds), s2, deps)

\* analyze_file, from the point where target_name is known
analyze_file(target, mods, progs, deps) ==
    IF target \notin (mods \cup progs)
    THEN <<>>
    ELSE Append(visit(target, [visited |-> {}, needed |-> <<>>], deps).needed, target)

KeysAll(order, mods, progs) == Range(order)

\* analyze_module's loop over unit_order: a unit without a file is skipped
ResultKeys(order, mods, progs) ==
    {u \in Range(order) : u \in mods \cup progs}

----------------------------------------------------------------------------
(* Specification of the resolver: a scanned directory, then analyze_file,  *)
(* then the orchestrator's loop over the returned order.                   *)

OrderUnits == {"a", "b", "p"}
OrderNames == OrderUnits \cup UnknownNames

RefLists == {s \in SeqsUpTo(OrderNames, MaxRefs) : NoDup(s)}

InitOrder ==
    /\ phase = "scanned"
    /\ modules = {"a", "b"}
    /\ programs = {"p"}
    /\ dependencies \in [OrderUnits -> RefLists]
    /\ target_name \in OrderUnits
    /\ unit_order = <<>>
    /\ result_keys = {}
    /\ defines = <<>> /\ active_blocks = <<>> /\ lines = <<>> /\ i = 1
    /\ processed_lines = <<>> /\ log = <<>>
    /\ config = <<>> /\ files = <<>> /\ processed_contents = <<>>
    /\ results = <<>> /\ k = 1 /\ returned = <<>>

AnalyzeFile ==
    /\ phase = "scanned"
    /\ unit_order' = analyze_file(target_name, modules, programs, dependencies)
    /\ phase' = "ordered"
    /\ UNCHANGED <<modules, programs, dependencies, target_name, result_keys, ppVars, runVars>>

ProcessOrder ==
    /\ phase = "ordered"
    /\ result_keys' = ResultKeys(unit_order, modules, programs)
    /\ phase' = "analyzed"
    /\ UNCHANGED <<modules, programs, dependencies, target_name, unit_order, ppVars, runVars>>

NextOrder == AnalyzeFile \/ ProcessOrder

SpecOrder == InitOrder /\ [][NextOrder]_vars

----------------------------------------------------------------------------
(* Python values and dicts *)

Bool(b) == [t |-> "bool", n |-> IF b THEN 1 ELSE 0]
IntV(n) == [t |-> "int", n |-> n]

\* Python truthiness of a value, and `not value`
Truthy(v) == v.n # 0
Not(v) == Bool(~Truthy(v))

\* key in d
Has(d, key) == \E j \in 1..Len(d) : d[j].k = key

\* d.get(key, default)
Get(d, key, default) ==
    IF Has(d, key) THEN d[CHOOSE j \in 1..Len(d) : d[j].k = key].v ELSE default

\* d[key] = value: an existing key keeps its place in the iteration order
Put(d, key, value) ==
    IF Has(d, key)
    THEN [j \in 1..Len(d) |-> IF d[j].k = key THEN [k |-> key, v |-> value] ELSE d[j]]
    ELSE Append(d, [k |-> key, v |-> value])

RECURSIVE Update(_, _)
\* d.update(e)
Update(d, e) == IF e = <<>> THEN d ELSE Update(Put(d, Head(e).k, Head(e).v), Tail(e))

----------------------------------------------------------------------------
(* PreprocessorState / PreprocessorParser *)

\* PreprocessorState.is_active: all(self.active_blocks)
is_active(stack) == \A j \in 1..Len(stack) : Truthy(stack[j])

\* directive expressions, as syntax trees of the text handed to eval
Defined(sym) == [op |-> "defined", sym |-> sym]
Name(sym)    == [op |-> "name", sym |-> sym]
Lit(n)       == [op |-> "lit", n |-> n]
Or(l, r)     == [op |-> "or", l |-> l, r |-> r]
And(l, r)    == [op |-> "and", l |-> l, r |-> r]

Ok(v) == [ok |-> TRUE, v |-> v]
Err   == [ok |-> FALSE, v |-> Bool(FALSE)]

RECURSIVE EvalPy(_, _)
\* what eval() gives for the rewritten expression: defined(S) was replaced by
\* str(S in defines), a define's name by str(value); any other name raises
\* NameError; `and` / `or` short-circuit and return an operand
EvalPy(e, defs) ==
    CASE e.op = "defined" -> Ok(Bool(Has(defs, e.sym)))
      [] e.op = "name"    -> IF Has(defs, e.sym) THEN Ok(Get(defs, e.sym, Bool(FALSE))) ELSE Err
      [] e.op = "lit"     -> Ok(IntV(e.n))
      [] e.op = "or"      -> LET l == EvalPy(e.l, defs)
                             IN  IF ~l.ok THEN Err
                                 ELSE IF Truthy(l.v) THEN l ELSE EvalPy(e.r, defs)
      [] e.op = "and"     -> LET l == EvalPy(e.l, defs)
                             IN  IF ~l.ok THEN Err
                                 ELSE IF ~Truthy(l.v) THEN l ELSE EvalPy(e.r, defs)

\* _evaluate_preprocessor_expression: bool(eval(...)), False on any exception
evaluate_preprocessor_expression(e, defs) ==
    LET r == EvalPy(e, defs) IN IF r.ok THEN Truthy(r.v) ELSE FALSE

DirectiveKinds == {"ifdef", "ifndef", "if", "elif", "else", "endif", "hash"}

\* line.startswith('#')
IsDirective(l) == l.kind \in DirectiveKinds

Front(s) == SubSeq(s, 1, Len(s) - 1)
Last(s) == s[Len(s)]

\* `if self.state.active_blocks:` in the #elif, #else and #endif branches
PopGuard(stack) == stack # <<>>

\* _handle_preprocessor_directive: the new active_blocks and the returned index
handle_preprocessor_directive(l, idx, stack, defs) ==
    LET new ==
          CASE l.kind = "ifdef"  -> Append(stack, Get(defs, l.arg, Bool(FALSE)))
            [] l.kind = "ifndef" -> Append(stack, Not(Get(defs, l.arg, Bool(FALSE))))
            [] l.kind = "if"     ->
                   Append(stack, Bool(evaluate_preprocessor_expression(l.arg, defs)))
            [] l.kind = "elif"   ->
                   IF PopGuard(stack)
                   THEN Append(Front(stack),
                               Bool(evaluate_preprocessor_expression(l.arg, defs)))
                   ELSE stack
            [] l.kind = "else"   ->
                   IF PopGuard(stack) THEN Append(Front(stack), Not(Last(stack))) ELSE stack
            [] l.kind = "endif"  ->
                   IF PopGuard(stack) THEN Front(stack) ELSE stack
            [] OTHER             -> stack
    IN  [next |-> idx + 1, active_blocks |-> new]

LoopIncrement(idx) == idx + 1

\* one iteration of parse_file's while loop on line ls[st.i]
ParseStep(st, ls, defs) ==
    LET l == ls[st.i] IN
    IF IsDirective(l)
    THEN LET h == handle_preprocessor_directive(l, st.i, st.active_blocks, defs)
         IN  [i               |-> LoopIncrement(h.next),
              active_blocks   |-> h.active_blocks,
              processed_lines |-> st.processed_lines,
              log             |-> Append(st.log, [i |-> st.i,
                                                  before |-> st.active_blocks,
                                                  after |-> h.active_blocks])]
    ELSE [i               |-> LoopIncrement(st.i),
          active_blocks   |-> st.active_blocks,
          processed_lines |-> IF is_active(st.active_blocks)
                              THEN Append(st.processed_lines, st.i)
                              ELSE st.processed_lines,
          log             |-> st.log]

RECURSIVE ParseLoop(_, _, _)
ParseLoop(st, ls, defs) ==
    IF st.i > Len(ls) THEN st ELSE ParseLoop(ParseStep(st, ls, defs), ls, defs)

\* parse_file on a whole file, starting from the parser's current active_blocks
parse_file(ls, stack, defs) ==
    ParseLoop([i |-> 1, active_blocks |-> stack, processed_lines |-> <<>>, log |-> <<>>],
              ls, defs)

----------------------------------------------------------------------------
(* Text helpers: str(), int(), eval() and str.replace() on character       *)
(* sequences                                                               *)

Digits == <<"0", "1", "2", "3", "4", "5", "6", "7", "8", "9">>

IsDigit(c) == c \in Range(Digits)
DigitVal(c) == (CHOOSE d \in 1..10 : Digits[d] = c) - 1
AllDigits(txt) == txt # <<>> /\ \A j \in 1..Len(txt) : IsDigit(txt[j])

RECURSIVE Str10(_)
Str10(n) == IF n < 10 THEN <<Digits[n + 1]>> ELSE Append(Str10(n \div 10), Digits[(n % 10) + 1])

\* str(value)
PyStr(v) ==
    IF v.t = "bool"
    THEN (IF v.n = 1 THEN <<"T", "r", "u", "e">> ELSE <<"F", "a", "l", "s", "e">>)
    ELSE Str10(v.n)

RECURSIVE Dec(_)
Dec(txt) == IF txt = <<>> THEN 0 ELSE 10 * Dec(Front(txt)) + DigitVal(Last(txt))

HasPrefix(txt, pat) == Len(pat) <= Len(txt) /\ SubSeq(txt, 1, Len(pat)) = pat

RECURSIVE Replace(_, _, _)
\* txt.replace(pat, rep): non-overlapping occurrences, left to right
Replace(txt, pat, rep) ==
    IF txt = <<>> THEN <<>>
    ELSE IF HasPrefix(txt, pat)
         THEN rep \o Replace(SubSeq(txt, Len(pat) + 1, Len(txt)), pat, rep)
         ELSE <<Head(txt)>> \o Replace(Tail(txt), pat, rep)

NoInt == [ok |-> FALSE, n |-> 0]
SomeInt(n) == [ok |-> TRUE, n |-> n]

\* int(eval(txt)) for the texts of the model: a decimal literal (one with a
\* leading zero is a syntax error unless it is all zeros), True, False; any
\* other text is a name eval cannot resolve
PyEvalInt(txt) ==
    IF AllDigits(txt)
    THEN IF Len(txt) > 1 /\ txt[1] = "0" /\ Dec(txt) # 0 THEN NoInt ELSE SomeInt(Dec(txt))
    ELSE IF txt = <<"T", "r", "u", "e">> THEN SomeInt(1)
    ELSE IF txt = <<"F", "a", "l", "s", "e">> THEN SomeInt(0)
    ELSE NoInt

----------------------------------------------------------------------------
(* EnhancedModuleAnalyzer: the estimator *)

\* source lines the estimator's patterns recognise
Use(unit)              == [kind |-> "use", arg |-> unit]
Only(alias, canon)     == [kind |-> "only", arg |-> [alias |-> alias, canon |-> canon]]
Param(name, value)     == [kind |-> "param", arg |-> [name |-> name, value |-> value]]
ArrayDecl(tag, dims, name) ==
    [kind |-> "array", arg |-> [tag |-> tag, dims |-> dims, name |-> name]]

\* a dimension: `lo:hi`, or a single index
DimRange(lo, hi) == [colon |-> TRUE, lo |-> lo, hi |-> hi]
DimSingle(e)     == [colon |-> FALSE, lo |-> e, hi |-> e]

IsoEnv == "iso_fortran_env"

RECURSIVE CollectLoop(_, _)
\* the loop of _collect_parameters over the `integer, parameter ::` matches
CollectLoop(content, params) ==
    IF content = <<>> THEN params
    ELSE LET l == Head(content) IN
         IF l.kind # "param" THEN CollectLoop(Tail(content), params)
         ELSE IF Has(params, l.arg.value)
              THEN CollectLoop(Tail(content),
                               Put(params, l.arg.name, Get(params, l.arg.value, IntV(0))))
              ELSE IF AllDigits(l.arg.value)
                   THEN CollectLoop(Tail(content),
                                    Put(params, l.arg.name, IntV(Dec(l.arg.value))))
                   ELSE CollectLoop(Tail(content), params)

\* _collect_parameters: the defines first, then the unit's parameters
collect_parameters(content, defs) == CollectLoop(content, Update(<<>>, defs))

RECURSIVE AllParams(_, _)
\* _calculate_array_size, lines 387-390: params over all processed contents
AllParams(contents, defs) ==
    IF contents = <<>> THEN <<>>
    ELSE Update(AllParams(Front(contents), defs),
                collect_parameters(Last(contents).v, defs))

RECURSIVE Substitute(_, _)
\* _evaluate_range, lines 348-350: every parameter replaced by str(value)
Substitute(txt, params) ==
    IF params = <<>> THEN txt
    ELSE Substitute(Replace(txt, Head(params).k, PyStr(Head(params).v)), Tail(params))

DefaultExtent == 100

\* _evaluate_range
evaluate_range(dim, params) ==
    IF ~dim.colon THEN 1
    ELSE LET start_val == PyEvalInt(Substitute(dim.lo, params))
             end_val   == PyEvalInt(Substitute(dim.hi, params))
         IN  IF start_val.ok /\ end_val.ok
             THEN end_val.n - start_val.n + 1
             ELSE DefaultExtent

DefaultTypeSize == 8

\* type_sizes.get(type_str, 8)
TypeSize(type_str) ==
    CASE type_str \in {"c_double", "real64", "int64"} -> 8
      [] type_str \in {"c_float", "real32", "int32"}  -> 4
      [] OTHER -> DefaultTypeSize

RECURSIVE Elements(_, _)
Elements(dims, params) ==
    IF dims = <<>> THEN 1
    ELSE Elements(Front(dims), params) * evaluate_range(Last(dims), params)

\* _calculate_array_size
calculate_array_size(dims, type_str, contents, defs) ==
    Elements(dims, AllParams(contents, defs)) * TypeSize(type_str)

RECURSIVE KindMappings(_)
\* _analyze_memory_usage, lines 263-268
KindMappings(content) ==
    IF content = <<>> THEN <<>>
    ELSE LET l == Last(content)
             d == KindMappings(Front(content))
         IN  IF l.kind = "only" THEN Put(d, l.arg.alias, l.arg.canon) ELSE d

\* the kind tag the static_arrays branch hands to _calculate_array_size
StaticKind(type_param, kind_mappings) == type_param

RECURSIVE StaticArrays(_, _, _, _)
\* _analyze_memory_usage, the static_arrays category
StaticArrays(content, whole, contents, defs) ==
    IF content = <<>> THEN <<>>
    ELSE LET l == Last(content)
             rest == StaticArrays(Front(content), whole, contents, defs)
         IN  IF l.kind # "array" THEN rest
             ELSE Append(rest,
                    [name |-> l.arg.name, type |-> l.arg.tag, dimensions |-> l.arg.dims,
                     estimated_size |->
                         calculate_array_size(l.arg.dims,
                                              StaticKind(l.arg.tag, KindMappings(whole)),
                                              contents, defs)])

\* _analyze_memory_usage (the model's files hold no allocatable array and no
\* derived-type declaration: those two lists stay empty)
analyze_memory_usage(content, contents, defs) ==
    [static_arrays      |-> StaticArrays(content, content, contents, defs),
     allocatable_arrays |-> <<>>,
     derived_types      |-> <<>>]

\* the name a `use` line refers to
UsedName(l) == IF l.kind = "only" THEN IsoEnv ELSE l.arg

RECURSIVE find_dependencies(_)
\* _find_dependencies: use names, first occurrence order
find_dependencies(content) ==
    IF content = <<>> THEN <<>>
    ELSE LET l == Last(content)
             rest == find_dependencies(Front(content))
         IN  IF l.kind \in {"use", "only"} /\ UsedName(l) \notin Range(rest)
             THEN Append(rest, UsedName(l)) ELSE rest

----------------------------------------------------------------------------
(* Specification of the interpreter: one parser, one file read line by     *)
(* line.  The loop never looks at the line that follows a directive, so    *)
(* that line is drawn from two representatives (a text line, a directive). *)

MaxLines == 6           \* lines of the file

SymA == <<"A">>

Text == [kind |-> "text", arg |-> <<>>]
Dir(kind, arg) == [kind |-> kind, arg |-> arg]

PPExprs == {Defined(SymA), And(Defined(SymA), Name(SymA)), Or(Name(SymA), Lit(1))}

PPDirectives ==
    {Dir("ifdef", SymA), Dir("ifndef", SymA), Dir("else", <<>>), Dir("endif", <<>>),
     Dir("hash", <<>>)}
    \cup {Dir("if", e) : e \in PPExprs} \cup {Dir("elif", e) : e \in PPExprs}

PPDefines ==
    {<<>>, <<[k |-> SymA, v |-> Bool(TRUE)]>>, <<[k |-> SymA, v |-> Bool(FALSE)]>>,
     <<[k |-> SymA, v |-> IntV(2)]>>}

Following == {<<>>, <<Text>>, <<Dir("endif", <<>>)>>}

InitPP ==
    /\ phase = "parsing"
    /\ defines \in PPDefines
    /\ active_blocks = <<Bool(TRUE)>>
    /\ lines = <<>> /\ i = 1 /\ processed_lines = <<>> /\ log = <<>>
    /\ modules = {} /\ programs = {} /\ dependencies = <<>> /\ target_name = ""
    /\ unit_order = <<>> /\ result_keys = {}
    /\ config = <<>> /\ files = <<>> /\ processed_contents = <<>>
    /\ results = <<>> /\ k = 1 /\ returned = <<>>

\* the loop body applied to the lines known so far
LoopBody(ls) ==
    LET st == ParseStep([i |-> i, active_blocks |-> active_blocks,
                         processed_lines |-> processed_lines, log |-> log], ls, defines)
    IN  /\ lines' = ls
        /\ i' = st.i
        /\ active_blocks' = st.active_blocks
        /\ processed_lines' = st.processed_lines
        /\ log' = st.log
        /\ UNCHANGED <<phase, defines, orderVars, runVars>>

TextLine ==
    /\ phase = "parsing"
    /\ i = Len(lines) + 1
    /\ Len(lines) < MaxLines
    /\ LoopBody(Append(lines, Text))

DirectiveLine ==
    /\ phase = "parsing"
    /\ i = Len(lines) + 1
    /\ \E d \in PPDirectives, f \in Following :
          /\ Len(lines) + 1 + Len(f) <= MaxLines
          /\ LoopBody(Append(lines, d) \o f)

NextPP == TextLine \/ DirectiveLine

SpecPP == InitPP /\ [][NextPP]_vars

----------------------------------------------------------------------------
(* Specification of the orchestrator: a configuration document and a       *)
(* directory with module m (m.F90) and program p (p.F90); the analyzer is  *)
(* constructed once and analyze_module("p.F90") is called MaxRuns times.   *)

MaxFileLines == 2       \* lines per source file
MaxRuns == 2            \* analyze_module calls on the one analyzer

NameN == <<"n">>
NameK == <<"k">>

RunUnits == {"m", "p"}

ArrN == ArrayDecl("real64", <<DimRange(<<"1">>, NameN)>>, "x")

AlphaM == {Dir("ifdef", SymA), Dir("endif", <<>>), Param(NameN, <<"1", "0">>),
           Param(NameK, NameN), ArrN}

AlphaP == {Use("m"), Dir("ifdef", SymA), Param(NameN, <<"2", "0">>),
           ArrayDecl("real64", <<DimRange(<<"1">>, NameK)>>, "y"), ArrN}

DefineSets ==
    {<<>>,
     <<[k |-> SymA, v |-> Bool(TRUE)]>>,
     <<[k |-> NameN, v |-> Bool(TRUE)]>>,
     <<[k |-> SymA, v |-> Bool(TRUE)], [k |-> NameN, v |-> IntV(5)]>>}

\* the JSON document: is the top-level key there, is `defines` inside it
ConfigDocs ==
    {[hasTop |-> FALSE, hasDefines |-> FALSE, defines |-> <<>>],
     [hasTop |-> TRUE, hasDefines |-> FALSE, defines |-> <<>>]}
    \cup {[hasTop |-> TRUE, hasDefines |-> TRUE, defines |-> d] : d \in DefineSets}

InitRun ==
    /\ phase = "new"
    /\ config \in ConfigDocs
    /\ files \in {[m |-> fm, p |-> fp] :
                     fm \in SeqsUpTo(AlphaM, MaxFileLines), fp \in SeqsUpTo(AlphaP, MaxFileLines)}
    /\ defines = <<>> /\ active_blocks = <<>>
    /\ modules = {} /\ programs = {} /\ dependencies = <<>>
    /\ target_name = "p" /\ unit_order = <<>> /\ result_keys = {}
    /\ processed_contents = <<>> /\ results = <<>> /\ k = 1 /\ returned = <<>>
    /\ lines = <<>> /\ i = 1 /\ processed_lines = <<>> /\ log = <<>>

\* config_section.get('defines', {})
DefinesOf(cfg) == IF cfg.hasDefines THEN cfg.defines ELSE <<>>

ConfigAccepted(cfg) == TRUE

\* config['preprocessor_config'] raises KeyError when the key is missing
ConfigLoads(cfg) == cfg.hasTop

\* EnhancedModuleAnalyzer.__init__ -> PreprocessorParser.__init__
Construct ==
    /\ phase = "new"
    /\ IF ConfigLoads(config)
       THEN /\ defines' = DefinesOf(config)
            /\ active_blocks' = <<Bool(TRUE)>>
            /\ phase' = "ready"
       ELSE /\ phase' = "config_error"
            /\ UNCHANGED <<defines, active_blocks>>
    /\ UNCHANGED <<orderVars, lines, i, processed_lines, log, runVars>>

\* names a file's `use` statements refer to (the scan sees the raw file)
RefSet(f) == {UsedName(f[j]) : j \in {j2 \in 1..Len(f) : f[j2].kind \in {"use", "only"}}}

\* _analyze_file_dependencies: the set, in any iteration order
RefOrders(f) ==
    {s \in SeqsUpTo(RefSet(f), Cardinality(RefSet(f))) : NoDup(s) /\ Range(s) = RefSet(f)}

\* analyze_module up to the loop: scan, dependency graph, order, reset
StartRun ==
    /\ phase = "ready"
    /\ Len(returned) < MaxRuns
    /\ modules' = {"m"}
    /\ programs' = {"p"}
    /\ \E dm \in RefOrders(files["m"]), dp \in RefOrders(files["p"]) :
          /\ dependencies' = [m |-> dm, p |-> dp]
          /\ unit_order' = analyze_file(target_name, {"m"}, {"p"}, [m |-> dm, p |-> dp])
    /\ processed_contents' = <<>>
    /\ results' = <<>>
    /\ k' = 1
    /\ phase' = "running"
    /\ UNCHANGED <<target_name, result_keys, ppVars, config, files, returned>>

\* the effective text: the emitted lines, verbatim
Content(ls, emitted) == [j \in 1..Len(emitted) |-> ls[emitted[j]]]

\* one iteration of analyze_module's loop over unit_order
ProcessUnit ==
    /\ phase = "running"
    /\ k <= Len(unit_order)
    /\ LET unit == unit_order[k] IN
       IF unit \notin ResultKeys(<<unit>>, modules, programs)
       THEN UNCHANGED <<active_blocks, processed_contents, results>>
       ELSE LET parsed   == parse_file(files[unit], active_blocks, defines)
                content  == Content(files[unit], parsed.processed_lines)
                contents == Put(processed_contents, unit, content)
                unit_result ==
                    [kind         |-> IF unit \in modules THEN "module" ELSE "program",
                     name         |-> unit,
                     memory_usage |-> analyze_memory_usage(content, contents, defines),
                     dependencies |-> find_dependencies(content)]
            IN  /\ active_blocks' = parsed.active_blocks
                /\ processed_contents' = contents
                /\ results' = Put(results, unit, unit_result)
    /\ k' = k + 1
    /\ UNCHANGED <<phase, orderVars, defines, lines, i, processed_lines, log,
                   config, files, returned>>

\* analyze_module returns
FinishRun ==
    /\ phase = "running"
    /\ k > Len(unit_order)
    /\ returned' = Append(returned, results)
    /\ phase' = "ready"
    /\ UNCHANGED <<orderVars, ppVars, config, files, processed_contents, results, k>>

NextRun == Construct \/ StartRun \/ ProcessUnit \/ FinishRun

SpecRun == InitRun /\ [][NextRun]_vars

----------------------------------------------------------------------------
(* Specification of the estimator as a function: the effective text of one *)
(* unit (a kind alias import, a parameter n, one fixed-dimension array) is *)
(* drawn at the start and _analyze_memory_usage is applied to it.          *)

MaxN == 3               \* value of the parameter n
MaxDims == 2            \* dimensions of the declared array

SizeKinds == {"real64", "real32", "int64", "int32", "c_double", "c_float", "real128"}

SizeDims == {DimRange(<<"1">>, NameN), DimRange(<<"2">>, NameN), DimSingle(NameN),
             DimRange(<<"1">>, <<"4">>)}

SizeContents ==
    {<<Only("RK", canon), Param(NameN, Str10(n)), ArrayDecl(tag, dims, "x")>> :
        canon \in SizeKinds, n \in 1..MaxN, tag \in {"RK", "real32"},
        dims \in (SeqsUpTo(SizeDims, MaxDims) \ {<<>>})}

InitSize ==
    /\ phase = "parsed"
    /\ processed_contents \in {<<[k |-> "p", v |-> c]>> : c \in SizeContents}
    /\ defines = <<>> /\ active_blocks = <<Bool(TRUE)>>
    /\ modules = {} /\ programs = {"p"} /\ dependencies = <<>>
    /\ target_name = "p" /\ unit_order = <<"p">> /\ result_keys = {}
    /\ config = <<>> /\ files = <<>> /\ results = <<>> /\ k = 1 /\ returned = <<>>
    /\ lines = <<>> /\ i = 1 /\ processed_lines = <<>> /\ log = <<>>

\* analyze_module, line 239, on the text parse_file returned
EstimateUnit ==
    /\ phase = "parsed"
    /\ results' = <<[k |-> "p",
                     v |-> analyze_memory_usage(processed_contents[1].v,
                                                processed_contents, defines)]>>
    /\ phase' = "sized"
    /\ UNCHANGED <<orderVars, ppVars, config, files, processed_contents, k, returned>>

NextSize == EstimateUnit

SpecSize == InitSize /\ [][NextSize]_vars

----------------------------------------------------------------------------
(* Specification of the range evaluation: the effective text of one unit   *)
(* declares two parameters, one name a proper substring of the other or    *)
(* not, in either order, and one array whose upper bound names one of them.*)

NameNX == <<"n", "x">>
NameN2 == <<"n", "2">>

RangeNames == {NameN, NameNX, NameN2}

RangeContents ==
    {<<Param(a, Str10(va)), Param(b, Str10(vb)),
       ArrayDecl("real64", <<DimRange(lo, hi)>>, "x")>> :
        a \in RangeNames, b \in RangeNames, va \in 1..MaxN, vb \in 1..MaxN,
        lo \in {<<"1">>, <<"2">>}, hi \in RangeNames}

InitRange ==
    /\ phase = "parsed"
    /\ processed_contents \in
          {<<[k |-> "p", v |-> c]>> : c \in {c2 \in RangeContents : c2[1].arg.name # c2[2].arg.name}}
    /\ defines = <<>> /\ active_blocks = <<Bool(TRUE)>>
    /\ modules = {} /\ programs = {"p"} /\ dependencies = <<>>
    /\ target_name = "p" /\ unit_order = <<"p">> /\ result_keys = {}
    /\ config = <<>> /\ files = <<>> /\ results = <<>> /\ k = 1 /\ returned = <<>>
    /\ lines = <<>> /\ i = 1 /\ processed_lines = <<>> /\ log = <<>>

NextRange == EstimateUnit

SpecRange == InitRange /\ [][NextRange]_vars

----------------------------------------------------------------------------
(* Interpreter claims.  A log record tells which lines the loop handled as *)
(* directives and the activation stack it printed before and after each.   *)

Emitted(j) == j \in Range(processed_lines)

KindAt(j) == lines[j].kind

\* C2 (as claimed): in an #if / #elif chain met while every enclosing block is
\* active, once one branch of the chain has evaluated true the text lines of
\* every later #elif branch are not emitted, whatever that #elif's own
\* expression gives.  (Stated for chains without nested blocks.)
C2_LaterElifExcluded ==
    \A e1 \in Range(log), eT \in Range(log), e2 \in Range(log), j \in 1..Len(lines) :
        ( /\ KindAt(e1.i) = "if" /\ is_active(e1.before)
          /\ e1.i <= eT.i /\ eT.i < e2.i /\ e2.i < j /\ j < i
          /\ Truthy(Last(eT.after))
          /\ KindAt(e2.i) = "elif"
          /\ \A m \in (e1.i + 1)..(e2.i - 1) : KindAt(m) \in {"text", "elif"}
          /\ \A m \in (e2.i + 1)..j : KindAt(m) = "text" )
        => ~Emitted(j)

\* C3 (as claimed): for `#ifdef A / line1 / #else / line2 / #endif` met with
\* every enclosing block active, line1 and not line2 is emitted when A is
\* truthy in defines, line2 and not line1 when A is false or absent; with an
\* inactive enclosing block neither line is emitted.
C3_IfdefElse ==
    \A e \in Range(log) :
        ( /\ e.i + 4 <= Len(lines) /\ i > e.i + 4
          /\ KindAt(e.i) = "ifdef" /\ KindAt(e.i + 1) = "text"
          /\ KindAt(e.i + 2) = "else" /\ KindAt(e.i + 3) = "text"
          /\ KindAt(e.i + 4) = "endif" )
        => IF ~is_active(e.before)
           THEN ~Emitted(e.i + 1) /\ ~Emitted(e.i + 3)
           ELSE IF Truthy(Get(defines, lines[e.i].arg, Bool(FALSE)))
                THEN Emitted(e.i + 1) /\ ~Emitted(e.i + 3)
                ELSE Emitted(e.i + 3) /\ ~Emitted(e.i + 1)

\* C6 (as claimed): the activation stack is never empty, its bottom element is
\* true, and an #endif, #else or #elif handled while only the root flag is on
\* the stack leaves the stack unchanged.
C6_RootFlagKept ==
    (phase = "parsing") =>
        /\ Len(active_blocks) >= 1
        /\ Truthy(active_blocks[1])
        /\ \A e \in Range(log) :
               (KindAt(e.i) \in {"endif", "else", "elif"} /\ Len(e.before) = 1)
                   => e.after = e.before

----------------------------------------------------------------------------
(* Orchestrator and estimator claims *)

\* C4 (as claimed): two successive analyze_module calls on one analyzer, for
\* the same target and unchanged files and configuration, return identical
\* results, whatever directive lines the files contain.
C4_SecondRunIdentical ==
    Len(returned) >= 2 => returned[2] = returned[1]

\* the ParameterTable _calculate_array_size builds once the first j units of
\* the run have been processed
TableAt(j) == AllParams(SubSeq(processed_contents, 1, j), defines)

\* the unit processed at position j declares the parameter in its effective text
Declares(j, name) ==
    \E m \in 1..Len(processed_contents[j].v) :
        /\ processed_contents[j].v[m].kind = "param"
        /\ processed_contents[j].v[m].arg.name = name

\* the unit at position j declares name = literal and no later line of the
\* units 1..j2 declares name again
LastLiteral(j, m, j2) ==
    LET l == processed_contents[j].v[m] IN
    /\ l.kind = "param" /\ AllDigits(l.arg.value)
    /\ \A m2 \in (m + 1)..Len(processed_contents[j].v) :
           ~(processed_contents[j].v[m2].kind = "param"
             /\ processed_contents[j].v[m2].arg.name = l.arg.name)
    /\ \A j3 \in (j + 1)..j2 : ~Declares(j3, l.arg.name)

\* C8 (as claimed): within a run the ParameterTable only grows: at unit j2 it
\* holds every constant declared (with a literal value) in the effective text
\* of the units 1..j2 with its declared value, and a name the table held at
\* an earlier unit j is still there with the same value unless one of the
\* units j+1..j2 declares it again.
C8_ParameterTableGrows ==
    (phase = "running") =>
        \A j2 \in 1..Len(processed_contents) :
            /\ \A j \in 1..j2 : \A m \in 1..Len(processed_contents[j].v) :
                   LastLiteral(j, m, j2) =>
                       LET l == processed_contents[j].v[m] IN
                       /\ Has(TableAt(j2), l.arg.name)
                       /\ Get(TableAt(j2), l.arg.name, IntV(0)) = IntV(Dec(l.arg.value))
            /\ \A j \in 1..(j2 - 1) : \A e \in Range(TableAt(j)) :
                   /\ Has(TableAt(j2), e.k)
                   /\ (Get(TableAt(j2), e.k, IntV(0)) = e.v
                       \/ \E j3 \in (j + 1)..j2 : Declares(j3, e.k))

\* the byte width the claim gives for a canonical kind
ClaimedWidth(canon) ==
    IF canon \in {"real32", "int32", "c_float"} THEN 4 ELSE 8

\* hi - lo + 1 for the dimensions of the estimator specification, n known
ClaimedExtent(dim, n) ==
    IF ~dim.colon THEN 1
    ELSE (IF dim.hi = NameN THEN n ELSE Dec(dim.hi)) - Dec(dim.lo) + 1

RECURSIVE ClaimedElements(_, _)
ClaimedElements(dims, n) ==
    IF dims = <<>> THEN 1
    ELSE ClaimedElements(Front(dims), n) * ClaimedExtent(Last(dims), n)

\* C9 (as claimed): a fixed-dimension array whose kind tag is an alias of an
\* only-import has estimated size = product of its extents times the byte
\* width of the canonical kind the alias maps to.
C9_AliasKindWidth ==
    (phase = "sized") =>
        LET content == processed_contents[1].v
            canon   == content[1].arg.canon
            n       == Dec(content[2].arg.value)
        IN  \A a \in Range(results[1].v.static_arrays) :
                (a.type = content[1].arg.alias) =>
                    a.estimated_size = ClaimedElements(a.dimensions, n) * ClaimedWidth(canon)

\* C10 (as claimed): a configuration document without the top-level key, or
\* without `defines` inside it, makes the run fail; no analysis is started.
C10_MissingKeyFails ==
    (phase # "new" /\ (~config.hasTop \/ ~config.hasDefines)) =>
        /\ phase = "config_error"
        /\ returned = <<>> /\ results = <<>>

\* C10 (amended): a document without the top-level key makes the run fail and
\* nothing is analysed; a document that has the top-level key but no `defines`
\* is accepted and the analyzer runs on an empty SymbolTable.
C10_MissingTopLevelKeyFails ==
    (phase # "new") =>
        IF ~config.hasTop
        THEN /\ phase = "config_error"
             /\ returned = <<>> /\ results = <<>> /\ processed_contents = <<>>
        ELSE /\ phase # "config_error"
             /\ (~config.hasDefines => defines = <<>>)

\* C10 witness: the constructor has rejected a document without the top-level
\* key.
C10_Witness ==
    phase = "config_error" /\ ~config.hasTop

\* pat occurs in txt and is shorter than txt
ProperSubstring(pat, txt) ==
    /\ Len(pat) < Len(txt)
    /\ \E j \in 0..(Len(txt) - Len(pat)) : SubSeq(txt, j + 1, j + Len(pat)) = pat

\* C11 (as claimed): when two declared parameters p and q exist with p a
\* proper substring of q, a `lo:hi` range whose upper bound is q has extent
\* value(q) - lo + 1, in whatever order the parameters are substituted (so
\* neither the fallback extent nor a value built from p's digits).
C11_WholeIdentifierSubstitution ==
    (phase = "sized") =>
        LET content == processed_contents[1].v
            decls   == {content[1].arg, content[2].arg}
            dim     == content[3].arg.dims[1]
        IN  \A q \in decls, pp \in decls :
                (dim.hi = q.name /\ ProperSubstring(pp.name, q.name)) =>
                    results[1].v.static_arrays[1].estimated_size
                        = (Dec(q.value) - Dec(dim.lo) + 1) * TypeSize("real64")

\* C12 (as claimed): every unit's file is compiled from the initial stack
\* <<true>>: the effective text recorded for a processed unit is what
\* parse_file gives for that file alone under the SymbolTable, whatever the
\* files processed before it (in this run or an earlier one) contain.
C12_FileParsedFromInitialStack ==
    \A j \in 1..Len(processed_contents) :
        LET unit == processed_contents[j].k IN
        processed_contents[j].v =
            Content(files[unit],
                    parse_file(files[unit], <<Bool(TRUE)>>, defines).processed_lines)

----------------------------------------------------------------------------
(* Graph notions used by the resolver claims (independent of visit) *)

Refs(u) == Range(DepsOf(dependencies, u))

RECURSIVE ReachFrom(_, _)
ReachFrom(frontier, seen) ==
    LET new == (UNION {Refs(u) : u \in frontier}) \ seen
    IN  IF new = {} THEN seen ELSE ReachFrom(new, seen \cup new)

\* names transitively referenced by u (u itself only when it lies on a cycle)
Reach(u) == ReachFrom({u}, {})

Acyclic == \A u \in OrderUnits : u \notin Reach(u)

IndexOf(s, x) == CHOOSE j \in 1..Len(s) : s[j] = x

\* C1: for an acyclic dependency graph and a known target, the order returned
\* by analyze_file holds every name the target transitively references, each
\* strictly before the target, holds no name twice and ends with the target;
\* a target without references gives exactly <<target>>.
C1_AcyclicOrder ==
    (phase # "scanned" /\ Acyclic) =>
        /\ Len(unit_order) >= 1
        /\ unit_order[Len(unit_order)] = target_name
        /\ NoDup(unit_order)
        /\ \A d \in Reach(target_name) :
               d \in Range(SubSeq(unit_order, 1, Len(unit_order) - 1))
        /\ (Refs(target_name) = {} => unit_order = <<target_name>>)

\* C1 witness: an acyclic graph where the target reaches one name along two
\* paths (a diamond) has been ordered.
C1_Witness ==
    /\ phase = "ordered" /\ Acyclic
    /\ \E d, e \in Refs(target_name) : d # e /\ e \in Refs(d)
    /\ Len(unit_order) >= 3

OnCycle(u) == u \in Reach(u)

\* C5 (as claimed): when the units reachable from the target contain a cycle,
\* every unit of the cycle occurs exactly once in the order and the target is
\* the last element.
C5_CycleUnitsOnce ==
    (phase # "scanned") =>
        \A u \in Reach(target_name) \cup {target_name} :
            OnCycle(u) =>
                /\ Count(unit_order, u) = 1
                /\ unit_order[Len(unit_order)] = target_name

\* C7 (as claimed): the order returned by analyze_file holds only the target
\* and names of known units.
C7_OrderOnlyKnown ==
    (phase # "scanned") => Range(unit_order) \subseteq (modules \cup programs)

\* C7 (amended): a referenced name that no scanned file defines is not
\* expanded (the order holds nothing beyond the target and what it reaches),
\* it does occur in the order, once and before the final target, and
\* analyze_module skips it: the result holds known units only.
C7_UnknownSkippedByOrchestrator ==
    (phase = "analyzed") =>
        /\ Range(unit_order) \subseteq ({target_name} \cup Reach(target_name))
        /\ \A x \in Reach(target_name) \ (modules \cup programs) :
               /\ Count(unit_order, x) = 1
               /\ IndexOf(unit_order, x) < Len(unit_order)
               /\ x \notin result_keys
        /\ result_keys = Range(unit_order) \cap (modules \cup programs)

\* C7 witness: an unknown name referenced through a dependency was ordered and
\* the orchestrator's loop has run.
C7_Witness ==
    /\ phase = "analyzed"
    /\ \E d \in Refs(target_name) : d # target_name /\ "x" \in Refs(d)
    /\ "x" \in Range(unit_order)
    /\ "x" \notin result_keys

====
